---- MODULE Spec2Model ----
(***************************************************************************)
(* Per-camera surveillance pipeline: the motion detector's debounce        *)
(* (motion_detector.py), the supervisor's recording state machine          *)
(* (main.py, update_camera_state) and the recording sink with its bounded  *)
(* frame queue and consumer thread (recorder.py).                          *)
(*                                                                         *)
(* Time is counted in whole ticks; a frame is identified by its sequence   *)
(* number in the camera's stream; contour detection is abstracted to one   *)
(* boolean per frame ("qualifying").                                       *)
(***************************************************************************)
EXTENDS Integers, Sequences, FiniteSets, TLC

\* ---------------------------------------------------------------- bounds
\* frames read by one capture loop
MaxFrames == 8
\* last clock tick
MaxTime == 4
\* largest time step between two processed frames
MaxDt == 2
\* frames fed to a detector on its own
MaxDetectFrames == 10
\* configuration: cameras.<id>.min_motion_frames is drawn from 1..MaxMinMotionFrames
MaxMinMotionFrames == 2
\* configuration: cameras.<id>.cooldown_time
CooldownTime == 1
\* configuration: cameras.<id>.min_recording_time
MinRecordingTime == 3
\* capacity of the sink's frame queue, scaled down from maxsize=100
QueueMaxSize == 2
\* frames of the stream in the runs with a shutdown, a failing write or a
\* fair scheduling of the join
MaxFaultFrames == 7
\* calls made on a sink driven on its own
MaxSinkCalls == 5
\* frames of the longer stream in the runs with two cameras
MaxCamFrames == 2

\* ------------------------------------------------------------- constants
\* Python's None for the timestamps, the writer and the thread
None == -1
\* grace window of the detector: "if self.no_motion_frames > 5"
GraceFrames == 5

Cameras == {1, 2}

\* config['telegram']: a snapshot is sent on start, the clip on stop
Telegram == [send_snapshot |-> TRUE, send_video |-> TRUE]

VARIABLES
    clock,      \* time.time(), in ticks
    frames,     \* frames[c]: frames read so far by the capture loop of c
    det,        \* det[c]: MotionDetector counters
    state,      \* state[c]: camera_states[c]
    rec,        \* rec[c]: VideoRecorder fields
    threads,    \* threads[c]: the consumer threads ever started for c
    encoders,   \* encoders[c]: the VideoWriter objects ever constructed for c
    sup,        \* sup[c]: where the capture loop of c stands
    last,       \* last[c]: what the last processed frame was and did
    obs,        \* obs[c]: counts of the calls made on the sink
    config,     \* config[c]: the camera's configuration
    hist,       \* hist[c]: the boolean stream fed to a detector on its own
    sys         \* the SurveillanceSystem: its running flag, how stop() ended

vars == <<clock, frames, det, state, rec, threads, encoders, sup, last, obs, config, hist, sys>>

\* ------------------------------------------------------------- detector
\* MotionDetector.detect, counter update; the variant resets the streak on the
\* first non-qualifying frame
DetectMutNoGrace(d, qualifying) ==
    IF qualifying
    THEN [motion_frames |-> d.motion_frames + 1, no_motion_frames |-> 0]
    ELSE [motion_frames |-> 0, no_motion_frames |-> d.no_motion_frames + 1]

\* (a further variant resets the streak one frame early, "no_motion_frames
\* >= 5")
DetectMutShortGrace(d, qualifying) ==
    IF qualifying
    THEN [motion_frames |-> d.motion_frames + 1, no_motion_frames |-> 0]
    ELSE LET n == d.no_motion_frames + 1
         IN  [motion_frames |-> IF n >= GraceFrames THEN 0 ELSE d.motion_frames,
              no_motion_frames |-> n]

detect(d, qualifying) ==
    IF qualifying
    THEN [motion_frames |-> d.motion_frames + 1, no_motion_frames |-> 0]
    ELSE LET n == d.no_motion_frames + 1
         IN  [motion_frames |-> IF n > GraceFrames THEN 0 ELSE d.motion_frames,
              no_motion_frames |-> n]

\* MotionDetector.detect, return value
detect_result(d, k) == d.motion_frames >= k

\* ----------------------------------------------------------------- sink
\* queue.Queue.full(); the variant lets one frame too many in
QueueFullMutOffByOne(q) == Len(q) > QueueMaxSize

queue_full(q) == Len(q) >= QueueMaxSize

\* VideoRecorder.add_frame: the queue after the call
add_frame(r, f) ==
    IF r.is_recording /\ ~queue_full(r.frame_queue)
    THEN [r EXCEPT !.frame_queue = Append(@, f)]
    ELSE r

\* ----------------------------------------------------------- supervisor
\* state['last_motion'] or now
or_now(x, now) == IF x = None \/ x = 0 THEN now ELSE x

\* the stop condition of update_camera_state on a no-motion frame: the
\* cooldown test (the variant takes >= for >) and the minimum recording time
\* test (the variant stops one tick early)
CooldownElapsedMutGeq(st, now) == now - or_now(st.last_motion, now) >= CooldownTime

cooldown_elapsed(st, now) == now - or_now(st.last_motion, now) > CooldownTime

MinTimeReachedMutEarly(st, now) == now - st.motion_start >= MinRecordingTime - 1

\* (a further variant takes > for >=)
MinTimeReachedMutStrict(st, now) == now - st.motion_start > MinRecordingTime

min_time_reached(st, now) == now - st.motion_start >= MinRecordingTime


\* the sink of one camera: its recorder fields, consumer threads and writers
Sink(c) == [rec |-> rec[c], threads |-> threads[c], encoders |-> encoders[c]]

\* A call of add_frame on the sink s.  The fields first, offered, enq and deq
\* of a writer are history: the frame start_recording was called with, the
\* frames passed to add_frame while the sink was active with this writer,
\* those of them that entered the queue, and how many left the queue.
offer(s, f) ==
    LET r2 == add_frame(s.rec, f)
        w  == s.rec.video_writer
    IN  [s EXCEPT
           !.rec = r2,
           !.encoders =
               IF s.rec.is_recording /\ w # None
               THEN [@ EXCEPT ![w].offered = Append(@, f),
                              ![w].enq = IF r2.frame_queue # s.rec.frame_queue
                                         THEN Append(@, f) ELSE @]
               ELSE @]

\* VideoRecorder.start_recording(first_frame) at time now; openOk is the
\* result of video_writer.isOpened().  When the writer did not open the call
\* raises after is_recording, last_video_path and video_writer were set.
\* (the variant has no "if self.is_recording: return")
StartRecordingMutNoGuard(s, f, now, openOk) ==
    LET w  == Len(s.encoders) + 1
        r1 == [s.rec EXCEPT !.is_recording = TRUE,
                            !.last_video_path = now,
                            !.video_writer = w]
        e1 == Append(s.encoders,
                     [opened |-> openOk, released |-> 0, written |-> <<>>,
                      first |-> f, offered |-> <<>>, enq |-> <<>>, deq |-> 0])
    IN  IF ~openOk
        THEN [rec |-> r1, threads |-> s.threads, encoders |-> e1]
        ELSE LET t  == Len(s.threads) + 1
                 s2 == [rec |-> [r1 EXCEPT !.recording_thread = t],
                        threads |-> Append(s.threads,
                                           [pc |-> "loop", frame |-> None, enc |-> w,
                                            failed |-> FALSE]),
                        encoders |-> e1]
                 s3 == offer(s2, f)
             IN  [s3 EXCEPT !.rec.start_time = now]

start_recording(s, f, now, openOk) ==
    IF s.rec.is_recording
    THEN s
    ELSE LET w  == Len(s.encoders) + 1
             r1 == [s.rec EXCEPT !.is_recording = TRUE,
                                 !.last_video_path = now,
                                 !.video_writer = w]
             e1 == Append(s.encoders,
                          [opened |-> openOk, released |-> 0, written |-> <<>>,
                           first |-> f, offered |-> <<>>, enq |-> <<>>, deq |-> 0])
         IN  IF ~openOk
             THEN [rec |-> r1, threads |-> s.threads, encoders |-> e1]
             ELSE LET t  == Len(s.threads) + 1
                      s2 == [rec |-> [r1 EXCEPT !.recording_thread = t],
                             threads |-> Append(s.threads,
                                                [pc |-> "loop", frame |-> None, enc |-> w,
                                                 failed |-> FALSE]),
                             encoders |-> e1]
                      s3 == offer(s2, f)
                  IN  [s3 EXCEPT !.rec.start_time = now]

\* ------------------------------------------------------------- initial state
InitState ==
    [recording |-> FALSE, motion_start |-> None, last_motion |-> None,
     motion_count |-> 0, cooldown_until |-> None]

InitRecorder ==
    [is_recording |-> FALSE, video_writer |-> None, frame_queue |-> <<>>,
     recording_thread |-> None, last_video_path |-> None, start_time |-> None]

InitLast ==
    [op |-> "init", frame |-> 0, qualifying |-> FALSE, detected |-> FALSE,
     now |-> 0, was_recording |-> FALSE, idle |-> 0, elapsed |-> 0,
     ever |-> FALSE, ret |-> None, alert |-> "none", clip |-> "none"]

InitObs ==
    [starts |-> 0, stops |-> 0, adds |-> 0, discarded |-> 0,
     alerts |-> 0, clips |-> 0, finalized |-> 0, logged |-> 0,
     stop_time |-> None]

\* The system after start(), the capture thread of camera c standing at
\* pc[c]: "opening" before cv2.VideoCapture, "loop" in its capture loop,
\* "ended" when process_camera_stream has returned.  A camera that has not
\* ended has a stream of len[c] frames ahead and a min_motion_frames out of
\* ks.
InitConfig(pc, len, ks) ==
    /\ clock = 1
    /\ frames = [c \in Cameras |-> 0]
    /\ det = [c \in Cameras |-> [motion_frames |-> 0, no_motion_frames |-> 0]]
    /\ state = [c \in Cameras |-> InitState]
    /\ rec = [c \in Cameras |-> InitRecorder]
    /\ threads = [c \in Cameras |-> <<>>]
    /\ encoders = [c \in Cameras |-> <<>>]
    /\ sup = pc
    /\ last = [c \in Cameras |-> InitLast]
    /\ obs = [c \in Cameras |-> InitObs]
    /\ config \in {[c \in Cameras |->
                        [min_motion_frames |-> k[c],
                         frames |-> IF pc[c] # "ended" THEN len[c] ELSE 0]] :
                      k \in {kk \in [Cameras -> ks \cup {1}] :
                                \A c \in Cameras :
                                    IF pc[c] = "ended" THEN kk[c] = 1
                                    ELSE kk[c] \in ks}}
    /\ hist = [c \in Cameras |-> <<>>]
    /\ sys = [running |-> TRUE, stop |-> "none"]

\* the same with min_motion_frames from 1 to MaxMinMotionFrames
InitWith(pc, len) == InitConfig(pc, len, 1..MaxMinMotionFrames)

\* The cameras of open have an open source and are in their capture loop;
\* the source of every other camera did not open (cap.isOpened() false) and
\* its process_camera_stream has returned.
InitCameras(open, len) ==
    InitWith([c \in Cameras |-> IF c \in open THEN "loop" ELSE "ended"],
             [c \in Cameras |-> len])

\* one camera streams, the source of the other did not open
Init == InitCameras({1}, MaxFrames)

\* ------------------------------------------------------------- capture loop
\* what update_camera_state does with a frame, from the state before it.
\* Variants: one skips the frames past the cooldown that the minimum recording
\* time keeps in the clip; one tests the start condition outside the
\* "if motion_detected" branch.
FrameOpMutSkipHold(st, detected, now, k) ==
    IF detected
    THEN IF ~st.recording /\ st.motion_count + 1 >= k THEN "start"
         ELSE IF st.recording THEN "add" ELSE "count"
    ELSE IF st.recording
         THEN IF cooldown_elapsed(st, now)
              THEN IF min_time_reached(st, now) THEN "stop" ELSE "none"
              ELSE "add"
         ELSE "none"

FrameOpMutStartUnconfirmed(st, detected, now, k) ==
    IF ~st.recording /\ st.motion_count + 1 >= k THEN "start"
    ELSE IF detected
         THEN IF st.recording THEN "add" ELSE "count"
         ELSE IF st.recording
              THEN IF cooldown_elapsed(st, now) /\ min_time_reached(st, now)
                   THEN "stop" ELSE "add"
              ELSE "none"

\* (a further variant has no "not state['recording']" in the start condition)
FrameOpMutRestart(st, detected, now, k) ==
    IF detected
    THEN IF st.motion_count + 1 >= k THEN "start" ELSE "count"
    ELSE IF st.recording
         THEN IF cooldown_elapsed(st, now) /\ min_time_reached(st, now)
              THEN "stop" ELSE "add"
         ELSE "none"

FrameOp(st, detected, now, k) ==
    IF detected
    THEN IF ~st.recording /\ st.motion_count + 1 >= k THEN "start"
         ELSE IF st.recording THEN "add" ELSE "count"
    ELSE IF st.recording
         THEN IF cooldown_elapsed(st, now) /\ min_time_reached(st, now)
              THEN "stop" ELSE "add"
         ELSE "none"

\* ------------------------------------------------------------- notifier
\* TelegramBot.send_photo and send_video: every exception is caught inside,
\* the call returns whether the message went out (ok is what the network did)
send_photo(ok) == ok

send_video(ok) == ok

\* SurveillanceSystem.send_motion_alert: how the call ends for its caller.
\* The body is one try/except Exception; the variant lets a failed delivery
\* raise into update_camera_state.
SendMotionAlertMutRaise(ok) == IF send_photo(ok) THEN "sent" ELSE "raised"

send_motion_alert(ok) == IF send_photo(ok) THEN "sent" ELSE "failed"

\* the delivery of the clip inside SurveillanceSystem.stop_recording
deliver_clip(ok) == IF send_video(ok) THEN "sent" ELSE "failed"

\* main.py imports no json module, so json.dumps in log_recging raises
\* NameError, which the except clause of stop_recording swallows
json_imported == FALSE

\* SurveillanceSystem.log_recging: the number of entries of logs/recordings.jsonl
\* after the call on a log of n entries
log_recging(n) == IF json_imported THEN n + 1 ELSE n

\* self.camera_states[camera_id], self.motion_detectors[camera_id],
\* self.recorders[camera_id]: one entry per camera in each dictionary (the
\* variant has the cameras share one object)
KeyedMutShared(m, c, v) == [x \in DOMAIN m |-> v]

keyed(m, c, v) == [m EXCEPT ![c] = v]

\* update_camera_state, "if motion_detected": the frame is counted and
\* last_motion set (the variant sets last_motion on every frame)
CountMotionMutAlways(st, md, now) ==
    IF md THEN [st EXCEPT !.motion_count = @ + 1, !.last_motion = now]
    ELSE [st EXCEPT !.last_motion = now]

\* (a further variant takes the count back to 0 on a frame without confirmed
\* motion)
CountMotionMutResetOnQuiet(st, md, now) ==
    IF md THEN [st EXCEPT !.motion_count = @ + 1, !.last_motion = now]
    ELSE [st EXCEPT !.motion_count = 0]

count_motion(st, md, now) ==
    IF md THEN [st EXCEPT !.motion_count = @ + 1, !.last_motion = now]
    ELSE st

\* update_camera_state after self.start_recording (the variant leaves
\* motion_start as it was)
OnStartMutNoMotionStart(st, now) ==
    [st EXCEPT !.recording = TRUE, !.cooldown_until = None]

on_start(st, now) ==
    [st EXCEPT !.recording = TRUE, !.motion_start = now, !.cooldown_until = None]

\* update_camera_state after self.stop_recording (the variant keeps the count)
OnStopMutKeepCount(st) == [st EXCEPT !.recording = FALSE]

on_stop(st) == [st EXCEPT !.recording = FALSE, !.motion_count = 0]

\* update_camera_state: send_motion_alert is called in the branch that
\* starts the recording, when snapshots are configured (the variant calls it
\* on every frame with confirmed motion that reaches the sink)
AlertDueMutWhileRecording(op) ==
    (op = "start" \/ op = "add") /\ Telegram.send_snapshot

alert_due(op) == op = "start" /\ Telegram.send_snapshot

\* The body of one iteration of process_camera_stream: cap.read() gave frame
\* number frames[c] + 1 at time clock + dt, detect ran on it, and
\* update_camera_state ran up to its return or, when it stops the recording,
\* up to the join inside VideoRecorder.stop_recording.
FrameBody(c) ==
    /\ frames[c] < config[c].frames
    /\ \E qualifying \in BOOLEAN, dt \in 0..MaxDt, openOk \in BOOLEAN,
          alertOk \in BOOLEAN :
         LET f   == frames[c] + 1
             now == clock + dt
             d2  == detect(det[c], qualifying)
             k   == config[c].min_motion_frames
             md  == detect_result(d2, k)
             st  == state[c]
             op  == FrameOp(st, md, now, k)
             st1 == count_motion(st, md, now)
             s   == Sink(c)
             s2  == CASE op = "start" -> start_recording(s, f, now, openOk)
                      [] op = "add"   -> offer(s, f)
                      [] op = "stop"  -> IF s.rec.is_recording
                                         THEN [s EXCEPT !.rec.is_recording = FALSE]
                                         ELSE s
                      [] OTHER        -> s
             alert == IF alert_due(op) THEN send_motion_alert(alertOk) ELSE "none"
         IN  /\ now <= MaxTime
             /\ (op = "start" \/ openOk)
             /\ (alert # "none" \/ alertOk)
             /\ clock' = now
             /\ frames' = [frames EXCEPT ![c] = f]
             /\ det' = keyed(det, c, d2)
             /\ state' = keyed(state, c,
                   CASE op = "start" -> on_start(st1, now)
                     [] op = "stop" /\ ~s.rec.is_recording -> on_stop(st1)
                     [] OTHER -> st1)
             /\ rec' = keyed(rec, c, s2.rec)
             /\ threads' = keyed(threads, c, s2.threads)
             /\ encoders' = keyed(encoders, c, s2.encoders)
             /\ sup' = [sup EXCEPT ![c] =
                   IF alert = "raised" THEN "ended"
                   ELSE IF op = "stop" /\ s.rec.is_recording THEN "joining"
                   ELSE "loop"]
             /\ last' = [last EXCEPT ![c] =
                   [op |-> op, frame |-> f, qualifying |-> qualifying,
                    detected |-> md, now |-> now, was_recording |-> st.recording,
                    idle |-> IF st.recording /\ ~md THEN now - st.last_motion ELSE 0,
                    elapsed |-> IF st.recording /\ ~md THEN now - st.motion_start ELSE 0,
                    ever |-> last[c].ever \/ md, ret |-> None,
                    alert |-> alert, clip |-> "none"]]
             /\ UNCHANGED <<config, hist, sys>>
             /\ obs' = [obs EXCEPT ![c] =
                   [@ EXCEPT !.starts = @ + (IF op = "start" THEN 1 ELSE 0),
                             !.stops  = @ + (IF op = "stop" THEN 1 ELSE 0),
                             !.adds   = @ + (IF op = "add" THEN 1 ELSE 0),
                             !.alerts = @ + (IF alert # "none" THEN 1 ELSE 0),
                             !.stop_time = IF op = "stop" THEN now ELSE @]]

\* One iteration of process_camera_stream, from the test of "while
\* self.running" to the end of the body, with no stop() in between
ProcessFrame(c) ==
    /\ sup[c] = "loop"
    /\ sys.running
    /\ FrameBody(c)

\* threading.Thread.is_alive of the thread t (None: no thread was started)
thread_alive(th, t) == t # None /\ th[t].pc # "done"

\* self.recording_thread.join(timeout=5.0) returns: the thread has ended, or
\* the timeout has passed, which no state of the sink can prevent (the
\* variant is a join without timeout)
JoinMutNoTimeout(th, t) == ~thread_alive(th, t)

join_returns(th, t) == ~thread_alive(th, t) \/ TRUE

\* VideoRecorder.stop_recording from the join on: join returns (the thread
\* ended, or the 5 s timeout passed), the queue is cleared and the path is
\* returned; then SurveillanceSystem.stop_recording and update_camera_state
\* finish (recording = False, motion_count = 0).  With a path returned,
\* SurveillanceSystem.stop_recording delivers the clip (clipOk is what the
\* network did) and calls log_recging.
JoinReturn(c) ==
    /\ sup[c] = "joining"
    /\ join_returns(threads[c], rec[c].recording_thread)
    /\ \E clipOk \in BOOLEAN :
         LET w    == rec[c].video_writer
             n    == Len(rec[c].frame_queue)
             path == rec[c].last_video_path
             clip == IF path # None /\ Telegram.send_video
                     THEN deliver_clip(clipOk) ELSE "none"
         IN  /\ (clip # "none" \/ clipOk)
             /\ rec' = [rec EXCEPT ![c].frame_queue = <<>>]
             /\ encoders' = [encoders EXCEPT ![c][w].deq = @ + n]
             /\ obs' = [obs EXCEPT
                   ![c].discarded = @ + n,
                   ![c].finalized = @ + (IF path # None THEN 1 ELSE 0),
                   ![c].clips = @ + (IF clip # "none" THEN 1 ELSE 0),
                   ![c].logged = IF path # None THEN log_recging(@) ELSE @]
             /\ last' = [last EXCEPT ![c].ret = path, ![c].clip = clip]
    /\ state' = [state EXCEPT ![c] = on_stop(@)]
    /\ sup' = [sup EXCEPT ![c] = "loop"]
    /\ UNCHANGED <<clock, frames, det, threads, config, hist, sys>>

\* ----------------------------------------------------------- consumer thread
\* _recording_loop: frame = self.frame_queue.get(timeout=1.0)
ConsumerGet(c, t) ==
    /\ threads[c][t].pc = "loop"
    /\ rec[c].frame_queue # <<>>
    /\ threads' = [threads EXCEPT ![c][t].pc = "write",
                                  ![c][t].frame = Head(rec[c].frame_queue)]
    /\ rec' = [rec EXCEPT ![c].frame_queue = Tail(@)]
    /\ encoders' = [encoders EXCEPT ![c][rec[c].video_writer].deq = @ + 1]
    /\ UNCHANGED <<clock, frames, det, state, sup, last, obs, config, hist, sys>>

\* _recording_loop: self.video_writer.write(frame), on the writer the
\* recorder holds now; a write on a released writer stores nothing
ConsumerWrite(c, t) ==
    /\ threads[c][t].pc = "write"
    /\ LET w == rec[c].video_writer
       IN  encoders' = [encoders EXCEPT ![c][w].written =
               IF encoders[c][w].opened /\ encoders[c][w].released = 0
               THEN Append(@, threads[c][t].frame) ELSE @]
    /\ threads' = [threads EXCEPT ![c][t].pc = "loop", ![c][t].frame = None]
    /\ UNCHANGED <<clock, frames, det, state, rec, sup, last, obs, config, hist, sys>>

\* _recording_loop: the while condition is false, the finally clause
\* releases the writer the recorder holds now and the thread ends
ConsumerExit(c, t) ==
    /\ threads[c][t].pc = "loop"
    /\ ~rec[c].is_recording
    /\ rec[c].frame_queue = <<>>
    /\ encoders' = [encoders EXCEPT ![c][rec[c].video_writer].released = @ + 1]
    /\ threads' = [threads EXCEPT ![c][t].pc = "done"]
    /\ UNCHANGED <<clock, frames, det, state, rec, sup, last, obs, config, hist, sys>>

Consumer(c) ==
    \E t \in DOMAIN threads[c] :
        \/ ConsumerGet(c, t)
        \/ ConsumerWrite(c, t)
        \/ ConsumerExit(c, t)

\* MotionDetector.detect on its own, fed a boolean stream (the result of the
\* contour test of each frame)
DetectFrame(c) ==
    /\ sup[c] = "loop"
    /\ Len(hist[c]) < MaxDetectFrames
    /\ \E qualifying \in BOOLEAN :
         LET d2 == detect(det[c], qualifying)
         IN  /\ det' = [det EXCEPT ![c] = d2]
             /\ hist' = [hist EXCEPT ![c] = Append(@, qualifying)]
             /\ last' = [last EXCEPT ![c].op = "detect",
                                     ![c].qualifying = qualifying,
                                     ![c].detected =
                                         detect_result(d2, config[c].min_motion_frames)]
    /\ UNCHANGED <<clock, frames, state, rec, threads, encoders, sup, obs, config, sys>>

Next ==
    \E c \in Cameras :
        \/ ProcessFrame(c)
        \/ JoinReturn(c)
        \/ Consumer(c)

Spec == Init /\ [][Next]_vars

NextDetector == \E c \in Cameras : DetectFrame(c)

SpecDetector == Init /\ [][NextDetector]_vars

\* ------------------------------------------------------------------ claims
\* the writer the recorder of c holds
CurrentWriter(c) == encoders[c][rec[c].video_writer]

\* C1: update_camera_state never stops a recording on a frame on which
\* now - motion_start < min_recording_time: whenever the last frame stopped
\* the recording (the supervisor is in, or has just left, the sink's stop),
\* the camera was recording and the time since motion_start, taken from the
\* state before the frame, had reached min_recording_time.
C1_NoStopBeforeMinRecordingTime ==
    \A c \in Cameras :
        (sup[c] = "joining" \/ last[c].op = "stop") =>
            /\ last[c].op = "stop"
            /\ last[c].was_recording
            /\ last[c].elapsed >= MinRecordingTime

\* C1 witness: motion was last confirmed at the very tick the recording
\* started, and the stop still waited for the minimum recording time.
C1_Witness ==
    \E c \in Cameras :
        /\ sup[c] = "joining"
        /\ last[c].idle = last[c].elapsed
        /\ state[c].last_motion = state[c].motion_start

\* a step of the capture loop of c that processes a frame
FrameStep(c) == frames'[c] = frames[c] + 1

\* the sink's stop_recording is entered on an active sink in this step
StopCalled(c) == rec[c].is_recording /\ ~rec'[c].is_recording

\* C2: on a no-motion frame processed while RECORDING the supervisor stops
\* the recording if and only if now - last_motion > cooldown_time and
\* now - motion_start >= min_recording_time; a stop calls the sink's stop
\* once, and when it has returned motion_count is 0 and the camera is IDLE.
C2_StopStep(c) ==
    (FrameStep(c) /\ state[c].recording /\ ~last'[c].detected) =>
        LET now     == clock'
            idle    == now - state[c].last_motion
            elapsed == now - state[c].motion_start
            stop    == idle > CooldownTime /\ elapsed >= MinRecordingTime
        IN  /\ StopCalled(c) <=> stop
            /\ (sup'[c] = "joining") <=> stop
            /\ obs'[c].stops = obs[c].stops + (IF stop THEN 1 ELSE 0)
            /\ ~stop => state'[c] = state[c]

C2_StopReturn(c) ==
    (sup[c] = "joining" /\ sup'[c] = "loop") =>
        /\ ~state'[c].recording
        /\ state'[c].motion_count = 0
        /\ obs'[c].stops = obs[c].stops
        /\ ~rec'[c].is_recording

C2_StopIffCooldownAndMinTime ==
    [][\A c \in Cameras : C2_StopStep(c) /\ C2_StopReturn(c)]_vars

\* C2 witness: a stop on the frame on which the elapsed time is exactly
\* min_recording_time, completed: the camera is IDLE with motion_count 0.
C2_Witness ==
    \E c \in Cameras :
        /\ last[c].op = "stop"
        /\ sup[c] = "loop"
        /\ last[c].elapsed = MinRecordingTime
        /\ last[c].idle > CooldownTime
        /\ ~state[c].recording
        /\ state[c].motion_count = 0
        /\ obs[c].stops = 1

\* C3: with min_motion_frames = k, k consecutive qualifying frames fed to a
\* freshly initialised camera have opened a recording by the k-th frame.
C3_RecordingByKthFrame ==
    \A c \in Cameras :
        (frames[c] = config[c].min_motion_frames
            /\ det[c].motion_frames = config[c].min_motion_frames) =>
            (state[c].recording /\ obs[c].starts = 1)

\* the frames lo, lo + 1, ..., hi in the order the capture loop read them
FramesFromTo(lo, hi) == [i \in 1..(hi - lo + 1) |-> lo + i - 1]

\* C4: while a camera is RECORDING every processed frame that does not stop
\* the recording is passed to the sink's add_frame, none is skipped: the
\* frames offered to the current recording are exactly the frames read since
\* its start (the start frame itself is offered by start_recording when the
\* writer opened), and a frame with confirmed motion sets last_motion = now.
C4_EveryFrameOffered ==
    \A c \in Cameras :
        state[c].recording =>
            LET e  == CurrentWriter(c)
                lo == IF e.opened THEN e.first ELSE e.first + 1
                hi == IF sup[c] = "joining" THEN frames[c] - 1 ELSE frames[c]
            IN  /\ e.offered = FramesFromTo(lo, hi)
                /\ (last[c].detected => state[c].last_motion = clock)

\* C4 witness: the three kinds of frame that keep a recording open have all
\* been offered: the last one is a no-motion frame past the cooldown and
\* before the minimum duration, after frames with confirmed motion.
C4_Witness ==
    \E c \in Cameras :
        /\ state[c].recording
        /\ sup[c] = "loop"
        /\ last[c].op = "add"
        /\ ~last[c].detected
        /\ last[c].idle > CooldownTime
        /\ last[c].elapsed < MinRecordingTime
        /\ Len(CurrentWriter(c).offered) >= 3
        /\ frames[c] \in {CurrentWriter(c).offered[i] :
                            i \in DOMAIN CurrentWriter(c).offered}

\* The streak of a boolean stream: the number of qualifying frames since
\* the last run of 6 or more consecutive non-qualifying frames ended (a run
\* still going on counts when it has reached 6 frames).
RECURSIVE StreakGap(_)
StreakGap(h) ==
    IF h = <<>>
    THEN [streak |-> 0, gap |-> 0]
    ELSE LET p == StreakGap(SubSeq(h, 1, Len(h) - 1))
         IN  IF h[Len(h)]
             THEN [streak |-> p.streak + 1, gap |-> 0]
             ELSE [streak |-> IF p.gap + 1 >= 6 THEN 0 ELSE p.streak,
                   gap |-> p.gap + 1]

\* C5: detect with min_motion_frames = k returns true only when the streak
\* has reached k, where the streak counter is the number of qualifying
\* frames since the last run of 6 consecutive non-qualifying frames: up to 5
\* consecutive non-qualifying frames leave it unchanged, the 6th zeroes it.
C5_DetectDebounce ==
    \A c \in Cameras :
        LET sg == StreakGap(hist[c])
        IN  /\ det[c].motion_frames = sg.streak
            /\ det[c].no_motion_frames = sg.gap
            /\ (hist[c] # <<>> =>
                  (last[c].detected <=> sg.streak >= config[c].min_motion_frames))

\* C5 witness: a streak that survived a run of 5 non-qualifying frames and
\* then confirmed motion with min_motion_frames = 2.
C5_Witness ==
    \E c \in Cameras :
        /\ config[c].min_motion_frames = 2
        /\ hist[c] = <<TRUE, FALSE, FALSE, FALSE, FALSE, FALSE, TRUE>>
        /\ last[c].detected

\* C6: a camera whose detector has never returned confirmed motion has never
\* called start_recording: no writer was constructed, no consumer thread
\* started, and the camera and its sink are idle.
C6_NoConfirmNoRecording ==
    \A c \in Cameras :
        ~last[c].ever =>
            /\ obs[c].starts = 0
            /\ encoders[c] = <<>>
            /\ threads[c] = <<>>
            /\ ~state[c].recording
            /\ ~rec[c].is_recording
            /\ rec[c].frame_queue = <<>>

\* C6 witness: a whole run without confirmed motion although a qualifying
\* frame was seen (its streak was reset before reaching min_motion_frames).
C6_Witness ==
    \E c \in Cameras :
        /\ frames[c] = MaxFrames
        /\ ~last[c].ever
        /\ last[c].qualifying
        /\ det[c].motion_frames = 1

\* the first n elements of q (all of q when it is shorter)
Prefix(q, n) == SubSeq(q, 1, IF Len(q) < n THEN Len(q) ELSE n)

\* C7: the frame queue never holds more than its capacity, and as long as
\* the consumer has taken nothing from the queue of an active recording the
\* queue holds exactly the first frames offered, up to the capacity, in
\* production order: a frame offered to a full queue is discarded and
\* changes nothing.
C7_QueueBounded ==
    \A c \in Cameras :
        /\ Len(rec[c].frame_queue) <= QueueMaxSize
        /\ (rec[c].is_recording /\ CurrentWriter(c).deq = 0) =>
              /\ rec[c].frame_queue = Prefix(CurrentWriter(c).offered, QueueMaxSize)
              /\ CurrentWriter(c).enq = rec[c].frame_queue

\* C7 witness: more frames than the capacity were offered while the consumer
\* took none: the queue is full and the surplus was dropped.
C7_Witness ==
    \E c \in Cameras :
        /\ rec[c].is_recording
        /\ CurrentWriter(c).opened
        /\ CurrentWriter(c).deq = 0
        /\ Len(CurrentWriter(c).offered) = QueueMaxSize + 2
        /\ Len(rec[c].frame_queue) = QueueMaxSize

\* every consumer thread of c has ended and the supervisor is not inside stop
Quiescent(c) ==
    /\ sup[c] = "loop"
    /\ ~rec[c].is_recording
    /\ \A t \in DOMAIN threads[c] : threads[c][t].pc = "done"

\* C8: every frame add_frame enqueued before stop_recording was called is
\* written to the writer of that recording, in production order, also when
\* the join timed out: once the sink is stopped and its consumer threads have
\* ended, each opened writer holds exactly the frames enqueued for it.
C8_EnqueuedFramesWritten ==
    \A c \in Cameras :
        Quiescent(c) =>
            \A w \in DOMAIN encoders[c] :
                encoders[c][w].opened =>
                    encoders[c][w].written = encoders[c][w].enq

\* C9: after stop_recording the consumer drains the queue, closes the writer
\* of that recording exactly once and ends, and every writer that was opened
\* is released: no writer is released twice, and an opened writer that is
\* not yet released is the one the sink holds, with a live consumer thread
\* left to release it.
C9_EveryWriterReleasedOnce ==
    \A c \in Cameras :
        \A w \in DOMAIN encoders[c] :
            /\ encoders[c][w].released <= 1
            /\ (encoders[c][w].opened /\ encoders[c][w].released = 0) =>
                  /\ w = rec[c].video_writer
                  /\ \E t \in DOMAIN threads[c] : threads[c][t].pc # "done"

\* The supervisor thread is scheduled and the join timeout runs out: the
\* return of the join is taken when it stays possible.  Nothing is assumed
\* about the consumer thread, which may stop for ever in a write.
SpecFairStop ==
    /\ InitCameras({1}, MaxFaultFrames)
    /\ [][Next]_vars
    /\ \A c \in Cameras : WF_vars(JoinReturn(c))

\* C10: stop_recording returns within a bounded wait whatever the consumer
\* thread does: a supervisor that waits in the join of stop_recording is
\* eventually back in its capture loop, also when the consumer never takes
\* another step.
C10_StopReturns ==
    \A c \in Cameras : (sup[c] = "joining") ~> (sup[c] = "loop")

\* C10 witness: the supervisor is past the join of a stop, back in its
\* capture loop, while the consumer thread of that recording still sits in
\* a write it has not finished.
C10_Witness ==
    \E c \in Cameras :
        /\ last[c].op = "stop"
        /\ sup[c] = "loop"
        /\ rec[c].recording_thread # None
        /\ threads[c][rec[c].recording_thread].pc = "write"

\* ----------------------------------------------------------------- shutdown
\* recorder.is_recording(): VideoRecorder.__init__ binds the instance attribute
\* is_recording to a bool, which hides the method of the same name; the call
\* applies a bool and raises TypeError
call_is_recording(r) == "TypeError"

\* SurveillanceSystem.stop(): the running flag is cleared, then the loop over
\* self.recorders (one recorder per configured camera) calls
\* recorder.is_recording() and ends at the first call that raises; no
\* recorder.stop_recording() is reached
SystemStop ==
    /\ sys.running
    /\ sys' = [running |-> FALSE,
               stop |-> IF \E c \in Cameras : call_is_recording(rec[c]) = "TypeError"
                        THEN "raised" ELSE "returned"]
    /\ UNCHANGED <<clock, frames, det, state, rec, threads, encoders, sup, last,
                   obs, config, hist>>

\* process_camera_stream: "while self.running" is false at the head of an
\* iteration, the finally clause releases the capture and the thread ends
CaptureExit(c) ==
    /\ sup[c] = "loop"
    /\ ~sys.running
    /\ sup' = [sup EXCEPT ![c] = "ended"]
    /\ UNCHANGED <<clock, frames, det, state, rec, threads, encoders, last, obs,
                   config, hist, sys>>

\* process_camera_stream: "while self.running" is true at the head of an
\* iteration and the thread goes on to cap.read()
CaptureTest(c) ==
    /\ sup[c] = "loop"
    /\ sys.running
    /\ frames[c] < config[c].frames
    /\ sup' = [sup EXCEPT ![c] = "body"]
    /\ UNCHANGED <<clock, frames, det, state, rec, threads, encoders, last, obs,
                   config, hist, sys>>

\* process_camera_stream: the body of the iteration whose test has passed;
\* stop() may have run since
CaptureBody(c) ==
    /\ sup[c] = "body"
    /\ FrameBody(c)

\* The test of the running flag and the body of the iteration are separate
\* steps here, so that stop() can fall between them.
NextShutdown ==
    \/ \E c \in Cameras :
           \/ CaptureTest(c)
           \/ CaptureBody(c)
           \/ CaptureExit(c)
           \/ JoinReturn(c)
           \/ Consumer(c)
    \/ SystemStop

\* the system with a stop() that may be requested at any moment
SpecShutdown == InitCameras({1}, MaxFaultFrames) /\ [][NextShutdown]_vars

\* C11: once stop() has been requested and has ended, no sink is active and
\* no writer that was opened is left unreleased.
C11_StopStopsEverySink ==
    sys.stop # "none" =>
        \A c \in Cameras :
            /\ ~rec[c].is_recording
            /\ \A w \in DOMAIN encoders[c] :
                   encoders[c][w].opened => encoders[c][w].released >= 1

\* C12: after stop() has cleared the running flag every capture loop ends at
\* its next iteration boundary and every consumer thread ends: when nothing
\* is left to run, no capture loop and no consumer thread is still alive.
C12_LoopsTerminate ==
    (~sys.running /\ ~ENABLED NextShutdown) =>
        \A c \in Cameras :
            /\ sup[c] = "ended"
            /\ \A t \in DOMAIN threads[c] : threads[c][t].pc = "done"

\* -------------------------------------------------------------- failing write
\* _recording_loop: self.video_writer.write(frame) raises.  The try inside
\* the loop catches queue.Empty only, so the exception leaves the while loop
\* for the outer "except Exception", the finally clause releases the writer
\* the recorder holds now and the thread ends.
ConsumerWriteFail(c, t) ==
    /\ threads[c][t].pc = "write"
    /\ encoders' = [encoders EXCEPT ![c][rec[c].video_writer].released = @ + 1]
    /\ threads' = [threads EXCEPT ![c][t].pc = "done", ![c][t].frame = None,
                                  ![c][t].failed = TRUE]
    /\ UNCHANGED <<clock, frames, det, state, rec, sup, last, obs, config, hist, sys>>

NextWriteFail ==
    \/ Next
    \/ \E c \in Cameras : \E t \in DOMAIN threads[c] : ConsumerWriteFail(c, t)

\* the system with writes that may fail
SpecWriteFail == InitCameras({1}, MaxFaultFrames) /\ [][NextWriteFail]_vars

\* C13: a write that fails skips its frame only: while the recording it
\* belongs to is active, the consumer thread is still running and its writer
\* is not released.
C13_WriteFailureSkipsFrame ==
    \A c \in Cameras :
        \A t \in DOMAIN threads[c] :
            (threads[c][t].failed /\ rec[c].is_recording
                                  /\ rec[c].recording_thread = t) =>
                /\ threads[c][t].pc # "done"
                /\ encoders[c][threads[c][t].enc].released = 0

\* C14: when the writer cannot be opened the attempt is abandoned: as long as
\* the writer the recorder holds is one that did not open, the sink is not
\* active, it has no consumer thread for that writer, and a stop_recording
\* on it has returned None.
C14_FailedOpenAbandoned ==
    \A c \in Cameras :
        (rec[c].video_writer # None /\ ~CurrentWriter(c).opened) =>
            /\ ~rec[c].is_recording
            /\ \A t \in DOMAIN threads[c] : threads[c][t].enc # rec[c].video_writer
            /\ last[c].ret = None

\* ------------------------------------------------------ the sink on its own
\* VideoRecorder.stop_recording: "if not self.is_recording: return None"
\* (the variant never returns early)
StopReturnsEarlyMutNever(r) == FALSE

stop_returns_early(r) == ~r.is_recording

\* A caller that drives one VideoRecorder directly: start_recording,
\* add_frame and stop_recording in any order, frames[c] counting its calls.
SinkStart(c) ==
    /\ sup[c] = "loop"
    /\ frames[c] < config[c].frames
    /\ \E dt \in 0..MaxDt, openOk \in BOOLEAN :
         LET f   == frames[c] + 1
             now == clock + dt
             s2  == start_recording(Sink(c), f, now, openOk)
         IN  /\ now <= MaxTime
             /\ clock' = now
             /\ frames' = [frames EXCEPT ![c] = f]
             /\ rec' = [rec EXCEPT ![c] = s2.rec]
             /\ threads' = [threads EXCEPT ![c] = s2.threads]
             /\ encoders' = [encoders EXCEPT ![c] = s2.encoders]
             /\ last' = [last EXCEPT ![c].op = "sink_start", ![c].frame = f,
                                     ![c].now = now,
                                     ![c].was_recording = rec[c].is_recording,
                                     ![c].ret = None]
             /\ obs' = [obs EXCEPT ![c].starts = @ + 1]
    /\ UNCHANGED <<det, state, sup, config, hist, sys>>

SinkAdd(c) ==
    /\ sup[c] = "loop"
    /\ frames[c] < config[c].frames
    /\ LET f  == frames[c] + 1
           s2 == offer(Sink(c), f)
       IN  /\ frames' = [frames EXCEPT ![c] = f]
           /\ rec' = [rec EXCEPT ![c] = s2.rec]
           /\ encoders' = [encoders EXCEPT ![c] = s2.encoders]
           /\ last' = [last EXCEPT ![c].op = "sink_add", ![c].frame = f,
                                   ![c].was_recording = rec[c].is_recording,
                                   ![c].ret = None]
           /\ obs' = [obs EXCEPT ![c].adds = @ + 1]
    /\ UNCHANGED <<clock, det, state, threads, sup, config, hist, sys>>

\* VideoRecorder.stop_recording up to its early return or up to the join
SinkStop(c) ==
    /\ sup[c] = "loop"
    /\ frames[c] < config[c].frames
    /\ frames' = [frames EXCEPT ![c] = @ + 1]
    /\ last' = [last EXCEPT ![c].op = "sink_stop", ![c].frame = frames[c] + 1,
                            ![c].was_recording = rec[c].is_recording,
                            ![c].ret = None]
    /\ obs' = [obs EXCEPT ![c].stops = @ + 1,
                          ![c].stop_time = IF rec[c].is_recording THEN clock ELSE @]
    /\ IF stop_returns_early(rec[c])
       THEN UNCHANGED <<rec, sup>>
       ELSE /\ rec' = [rec EXCEPT ![c].is_recording = FALSE]
            /\ sup' = [sup EXCEPT ![c] = "joining"]
    /\ UNCHANGED <<clock, det, state, threads, encoders, config, hist, sys>>

\* VideoRecorder.stop_recording from the join on: the queue is cleared and
\* last_video_path is returned
SinkJoinReturn(c) ==
    /\ sup[c] = "joining"
    /\ join_returns(threads[c], rec[c].recording_thread)
    /\ LET w == rec[c].video_writer
           n == Len(rec[c].frame_queue)
       IN  /\ rec' = [rec EXCEPT ![c].frame_queue = <<>>]
           /\ encoders' = IF w = None THEN encoders
                          ELSE [encoders EXCEPT ![c][w].deq = @ + n]
           /\ obs' = [obs EXCEPT ![c].discarded = @ + n]
    /\ last' = [last EXCEPT ![c].ret = rec[c].last_video_path]
    /\ sup' = [sup EXCEPT ![c] = "loop"]
    /\ UNCHANGED <<clock, frames, det, state, threads, config, hist, sys>>

NextSink ==
    \E c \in Cameras :
        \/ SinkStart(c)
        \/ SinkAdd(c)
        \/ SinkStop(c)
        \/ SinkJoinReturn(c)
        \/ Consumer(c)

SpecSink == InitCameras({1}, MaxSinkCalls) /\ [][NextSink]_vars

\* a call of stop_recording, of start_recording on the sink of c
SinkStopCall(c) == frames'[c] = frames[c] + 1 /\ last'[c].op = "sink_stop"

SinkStartCall(c) == frames'[c] = frames[c] + 1 /\ last'[c].op = "sink_start"

\* C15: stop_recording on a sink that is not active returns None and changes
\* nothing: the recorder, its threads and its writers are as before and the
\* caller is not held in a join.
C15_StopInactiveIsNoOp ==
    [][\A c \in Cameras :
          (SinkStopCall(c) /\ ~rec[c].is_recording) =>
              /\ last'[c].ret = None
              /\ rec'[c] = rec[c]
              /\ threads'[c] = threads[c]
              /\ encoders'[c] = encoders[c]
              /\ sup'[c] = sup[c]]_vars

\* a second stop_recording in a row, after a recording that was stopped
C15_Witness ==
    \E c \in Cameras :
        /\ last[c].op = "sink_stop"
        /\ ~last[c].was_recording
        /\ last[c].ret = None
        /\ obs[c].stops >= 2
        /\ rec[c].last_video_path # None
        /\ \E w \in DOMAIN encoders[c] : encoders[c][w].opened

\* C16: start_recording on a sink that is already active is a no-op: no
\* writer is constructed, no consumer thread is started and the frame passed
\* does not enter the queue.
C16_StartActiveIsNoOp ==
    [][\A c \in Cameras :
          (SinkStartCall(c) /\ rec[c].is_recording) =>
              /\ rec'[c] = rec[c]
              /\ threads'[c] = threads[c]
              /\ encoders'[c] = encoders[c]]_vars

\* a start_recording made while the first recording was running
C16_Witness ==
    \E c \in Cameras :
        /\ last[c].op = "sink_start"
        /\ last[c].was_recording
        /\ rec[c].is_recording
        /\ CurrentWriter(c).opened
        /\ Len(encoders[c]) = 1
        /\ Len(threads[c]) = 1

\* a call of add_frame by the capture loop of c that finds the queue full
DropStep(c) ==
    /\ FrameStep(c)
    /\ last'[c].op = "add"
    /\ rec[c].is_recording
    /\ queue_full(rec[c].frame_queue)

\* C17: every frame that add_frame drops on a full queue is counted: the drop
\* leaves a trace in the recorder (a field that counts it changes) and does
\* not raise (the capture loop goes on).
C17_DropIsCounted ==
    [][\A c \in Cameras :
          DropStep(c) => (rec'[c] # rec[c] /\ sup'[c] = "loop")]_vars

\* ---------------------------------------------------------------- two cameras
\* process_camera_stream before its loop: cv2.VideoCapture(rtsp_url) and the
\* test of cap.isOpened(); a source that did not open ends this thread
OpenSource(c) ==
    /\ sup[c] = "opening"
    /\ \E ok \in BOOLEAN : sup' = [sup EXCEPT ![c] = IF ok THEN "loop" ELSE "ended"]
    /\ UNCHANGED <<clock, frames, det, state, rec, threads, encoders, last, obs,
                   config, hist, sys>>

\* Two capture threads side by side.  The streams are too short for a
\* recording to be stopped, so the steps of a stop are left out.
NextCams ==
    \E c \in Cameras :
        \/ OpenSource(c)
        \/ ProcessFrame(c)
        \/ \E t \in DOMAIN threads[c] : ConsumerGet(c, t) \/ ConsumerWrite(c, t)

\* the second stream is one frame shorter than the first
SpecCams ==
    /\ InitWith([c \in Cameras |-> "opening"],
                [c \in Cameras |-> IF c = 1 THEN MaxCamFrames ELSE MaxCamFrames - 1])
    /\ [][NextCams]_vars

\* what the system holds for camera c
CameraData(c) ==
    <<state[c], det[c], rec[c], threads[c], encoders[c], sup[c], frames[c]>>

\* the source of camera c does not open
SourceFailed(c) == sup[c] = "opening" /\ sup'[c] = "ended"

\* C18: a frame processed for one camera, and a source of one camera that
\* fails to open, leave the camera state, detector counters, recorder, threads,
\* writers and capture loop of every other camera unchanged.
C18_CamerasIsolated ==
    [][\A a, b \in Cameras :
          (a # b /\ (FrameStep(a) \/ SourceFailed(a))) =>
              CameraData(b)' = CameraData(b)]_vars

\* both cameras are recording, one has gone on to its next frame after the
\* other had started
C18_Witness ==
    \E a, b \in Cameras :
        /\ a # b
        /\ state[a].recording /\ frames[a] = MaxCamFrames /\ last[a].op = "add"
        /\ state[b].recording /\ rec[b].is_recording /\ last[b].op = "start"
        /\ last[b].now <= last[a].now
        /\ threads[a] # threads[b]

\* C19: what the notifier does never changes the recording lifecycle.  On
\* every frame the transition and the call made on the sink are the ones
\* update_camera_state derives from the camera state, the detection and the
\* time, whether the alert went out or failed, and the capture loop goes on;
\* a stop ends with the camera idle whether the clip went out or failed.
C19_NotifierOutcomeIgnored ==
    [][\A c \in Cameras :
          /\ FrameStep(c) =>
                LET op == FrameOp(state[c], last'[c].detected, clock',
                                  config[c].min_motion_frames)
                IN  /\ last'[c].op = op
                    /\ sup'[c] = IF op = "stop" THEN "joining" ELSE "loop"
                    /\ state'[c].recording = (op = "start" \/ state[c].recording)
                    /\ obs'[c].starts = obs[c].starts + (IF op = "start" THEN 1 ELSE 0)
                    /\ obs'[c].adds = obs[c].adds + (IF op = "add" THEN 1 ELSE 0)
                    /\ obs'[c].stops = obs[c].stops + (IF op = "stop" THEN 1 ELSE 0)
          /\ (sup[c] = "joining" /\ sup'[c] # "joining") =>
                /\ sup'[c] = "loop"
                /\ ~state'[c].recording
                /\ state'[c].motion_count = 0
                /\ ~rec'[c].is_recording]_vars

\* a recording that was started with a failed alert is running
C19_Witness ==
    \E c \in Cameras :
        /\ last[c].op = "start"
        /\ last[c].alert = "failed"
        /\ state[c].recording
        /\ rec[c].is_recording
        /\ sup[c] = "loop"
        /\ obs[c].finalized >= 1
        /\ last[c].clip = "none"

\* C20: every recording the supervisor's stop has finalized has exactly one
\* entry in the recording log.
C20_OneLogEntryPerRecording ==
    \A c \in Cameras : obs[c].logged = obs[c].finalized

\* ------------------------------------------------------------------ duration
\* VideoRecorder.get_last_duration called at time now
get_last_duration(r, now) ==
    IF r.start_time # None /\ r.start_time # 0 THEN now - r.start_time ELSE 0

\* a caller asks the recorder for the duration, some time after its last call
SinkDuration(c) ==
    /\ sup[c] = "loop"
    /\ frames[c] < config[c].frames
    /\ \E dt \in 0..MaxDt :
         LET now == clock + dt
         IN  /\ now <= MaxTime
             /\ clock' = now
             /\ last' = [last EXCEPT ![c].op = "sink_duration",
                                     ![c].frame = frames[c] + 1,
                                     ![c].ret = get_last_duration(rec[c], now)]
    /\ frames' = [frames EXCEPT ![c] = @ + 1]
    /\ UNCHANGED <<det, state, rec, threads, encoders, sup, obs, config, hist, sys>>

NextSinkQuery ==
    \/ NextSink
    \/ \E c \in Cameras : SinkDuration(c)

\* the sink driven on its own by a caller that also asks for the duration
SpecSinkQuery == InitCameras({1}, MaxSinkCalls) /\ [][NextSinkQuery]_vars

\* C21: the duration reported for a recording that was stopped is the span
\* between its start call (the time in last_video_path) and its stop call,
\* whenever it is asked for.
C21_DurationIsStartToStop ==
    \A c \in Cameras :
        (last[c].op = "sink_duration" /\ ~rec[c].is_recording
                                      /\ obs[c].stop_time # None) =>
            last[c].ret = obs[c].stop_time - rec[c].last_video_path

\* C22: in every camera state, recording = true implies that motion_start
\* is set.
C22_RecordingHasMotionStart ==
    \A c \in Cameras : state[c].recording => state[c].motion_start # None

\* a second recording is running, started on the frame just processed
C22_Witness ==
    \E c \in Cameras :
        /\ state[c].recording
        /\ last[c].op = "start"
        /\ state[c].motion_start = last[c].now
        /\ obs[c].starts = 2

\* the RECORDING-to-IDLE transition of camera c
StopTransition(c) == state[c].recording /\ ~state'[c].recording

\* C23: motion_count is set to 0 on the RECORDING-to-IDLE transition and on
\* no other step: a step that takes motion_count to 0 is a stop transition
\* and every stop transition leaves motion_count at 0.
C23_CountResetOnStopOnly ==
    [][\A c \in Cameras :
          /\ (state[c].motion_count # 0 /\ state'[c].motion_count = 0)
                 => StopTransition(c)
          /\ StopTransition(c) => state'[c].motion_count = 0]_vars

\* a recording that counted several frames with motion has been stopped
C23_Witness ==
    \E c \in Cameras :
        /\ obs[c].stops = 1
        /\ obs[c].adds >= 2
        /\ sup[c] = "loop"
        /\ ~state[c].recording
        /\ state[c].motion_count = 0
        /\ state[c].last_motion # None

\* C24: a frame without confirmed motion processed while the camera is idle
\* changes nothing in the camera state and makes no call to the sink or the
\* notifier.
C24_IdleNoMotionFrameIsNoOp ==
    [][\A c \in Cameras :
          (FrameStep(c) /\ ~state[c].recording /\ ~last'[c].detected) =>
              /\ state'[c] = state[c]
              /\ rec'[c] = rec[c]
              /\ threads'[c] = threads[c]
              /\ encoders'[c] = encoders[c]
              /\ obs'[c] = obs[c]
              /\ last'[c].alert = "none"]_vars

\* an idle camera that has counted motion before has processed a frame
\* without confirmed motion
C24_Witness ==
    \E c \in Cameras :
        /\ last[c].op = "none"
        /\ ~last[c].was_recording
        /\ ~last[c].detected
        /\ ~state[c].recording
        /\ state[c].last_motion # None

\* C25: with snapshots configured, one motion alert is emitted on the frame
\* of each IDLE-to-RECORDING transition and none on any other step.
C25_OneAlertPerStart ==
    [][\A c \in Cameras :
          Telegram.send_snapshot =>
              obs'[c].alerts = obs[c].alerts +
                  (IF FrameStep(c) /\ ~state[c].recording /\ state'[c].recording
                   THEN 1 ELSE 0)]_vars

\* two recordings were started, two alerts were emitted, frames with confirmed
\* motion were processed while recording
C25_Witness ==
    \E c \in Cameras :
        /\ obs[c].starts = 2
        /\ obs[c].alerts = 2
        /\ obs[c].adds >= 1

\* C26: whenever the camera state has recording = true, the sink is active
\* with a writer that opened and a consumer thread that is running.
C26_RecordingMeansSinkWrites ==
    \A c \in Cameras :
        (state[c].recording /\ sup[c] = "loop") =>
            /\ rec[c].is_recording
            /\ rec[c].video_writer # None
            /\ CurrentWriter(c).opened
            /\ thread_alive(threads[c], rec[c].recording_thread)

\* the consumer threads of camera c that have not ended
AliveThreads(c) == {t \in DOMAIN threads[c] : threads[c][t].pc # "done"}

\* C27: at most one consumer thread runs per sink, it is the one started
\* for the writer the recorder holds, and a writer whose recording was
\* stopped and followed by a new one has been released.
C27_OneConsumerPerSink ==
    \A c \in Cameras :
        /\ Cardinality(AliveThreads(c)) <= 1
        /\ \A t \in AliveThreads(c) :
               rec[c].is_recording => threads[c][t].enc = rec[c].video_writer
        /\ \A w \in DOMAIN encoders[c] :
               (encoders[c][w].opened /\ w < Len(encoders[c]))
                   => encoders[c][w].released >= 1

\* C28: once stop() has ended, no sink becomes active again: no step after
\* it takes is_recording of a recorder from false to true.
C28_NoStartAfterStop ==
    [][\A c \in Cameras :
          sys.stop # "none" => ~(~rec[c].is_recording /\ rec'[c].is_recording)]_vars

\* --------------------------------------------------------------- fair frames
\* The steps of the capture thread alone.  The consumer's steps change
\* threads, the queue and the writers only, which neither FrameOp nor the
\* guard of JoinReturn reads, so the camera state moves the same way with
\* the consumer never scheduled.
NextFrames ==
    \E c \in Cameras :
        \/ ProcessFrame(c)
        \/ JoinReturn(c)

\* The capture thread is scheduled: a frame is processed when one can be,
\* and the join of a stop returns.
SpecFairFrames ==
    /\ Init
    /\ [][NextFrames]_vars
    /\ \A c \in Cameras : WF_vars(ProcessFrame(c)) /\ WF_vars(JoinReturn(c))

\* camera c is recording and its timers can both run out before the clock
\* of the model stops at MaxTime
RecordingWithRoom(c) ==
    /\ state[c].recording
    /\ MaxTime - state[c].motion_start >= MinRecordingTime
    /\ MaxTime - or_now(state[c].last_motion, MaxTime) > CooldownTime

\* the stream of c ended before the clock reached MaxTime
StreamEndedEarly(c) == frames[c] = config[c].frames /\ clock < MaxTime

\* C29: a camera that is recording and whose frames bring no confirmed
\* motion any more is stopped and returns to idle, when frames keep being
\* processed and time advances (here: unless motion is confirmed again or
\* the stream ends before the clock has reached MaxTime).
C29_QuietRecordingStops ==
    \A c \in Cameras :
        (RecordingWithRoom(c) /\ ~last[c].detected)
            ~> (~state[c].recording \/ last[c].detected \/ StreamEndedEarly(c))

\* no confirmed motion on the last frame, the recording goes on, the
\* cooldown has not passed yet and one frame is left
C29_Witness ==
    \E c \in Cameras :
        /\ RecordingWithRoom(c)
        /\ ~last[c].detected
        /\ last[c].op = "add"
        /\ sup[c] = "loop"
        /\ frames[c] < config[c].frames

\* C30: per camera the supervisor's calls of the sink's start_recording and
\* stop_recording alternate, beginning with a start: the starts are equal to
\* the stops, or one ahead exactly while the camera is recording and no stop
\* has been called for it; no more clips are finalized than stops were called.
C30_StartStopAlternate ==
    \A c \in Cameras :
        /\ obs[c].starts - obs[c].stops =
               (IF state[c].recording /\ sup[c] # "joining" THEN 1 ELSE 0)
        /\ obs[c].finalized <= obs[c].stops

\* the second recording is running after the first was stopped
C30_Witness ==
    \E c \in Cameras :
        /\ obs[c].starts = 2
        /\ obs[c].stops = 1
        /\ obs[c].finalized = 1
        /\ state[c].recording

\* ------------------------------------------------------- interrupted motion
\* detect stays true for GraceFrames frames after the frame on which it first
\* was true, so an idle camera sees a frame without confirmed motion between
\* two frames with confirmed motion only when min_motion_frames is at least
\* GraceFrames + 2
GapMinMotionFrames == GraceFrames + 2

\* a stream on which the detector's streak is reached, lost and reached again
GapFrames == 2 * GapMinMotionFrames + GraceFrames + 1

\* The capture thread of one camera on a stream of GapFrames frames, with
\* min_motion_frames = GapMinMotionFrames.
SpecGap ==
    /\ InitConfig([c \in Cameras |-> IF c = 1 THEN "loop" ELSE "ended"],
                  [c \in Cameras |-> GapFrames], {GapMinMotionFrames})
    /\ [][NextFrames]_vars

\* C31: while the camera is idle its motion_count is below min_motion_frames
\* and never decreases: a frame without confirmed motion leaves it (and the
\* camera idle), a frame with confirmed motion adds one, and the recording
\* starts on exactly the frame that takes the count to min_motion_frames;
\* no other step changes the state of an idle camera.  The count being 0
\* at initialisation and after a stop, the recording starts on the
\* min_motion_frames-th frame with confirmed motion since then.
C31_IdleCountNeverDecreases ==
    [][\A c \in Cameras :
          ~state[c].recording =>
              LET k == config[c].min_motion_frames
                  n == state[c].motion_count
              IN  /\ n < k
                  /\ IF ~FrameStep(c) THEN state'[c] = state[c]
                     ELSE IF ~last'[c].detected
                          THEN /\ ~state'[c].recording
                               /\ state'[c].motion_count = n
                          ELSE /\ state'[c].motion_count = n + 1
                               /\ state'[c].recording <=> (n + 1 = k)
                               /\ obs'[c].starts = obs[c].starts +
                                      (IF n + 1 = k THEN 1 ELSE 0)]_vars

\* The first recording has started on the frame that took the count to
\* GapMinMotionFrames, after frames without confirmed motion in between:
\* the detector's streak is at min_motion_frames exactly, so the frame
\* before was not confirmed (a run of confirmed frames that long holds a
\* second qualifying frame and leaves the streak above it).
C31_Witness ==
    \E c \in Cameras :
        /\ config[c].min_motion_frames = GapMinMotionFrames
        /\ last[c].op = "start"
        /\ obs[c].starts = 1
        /\ obs[c].stops = 0
        /\ state[c].recording
        /\ state[c].motion_count = GapMinMotionFrames
        /\ det[c].motion_frames = GapMinMotionFrames

\* ------------------------------------------------------ detector after-run
\* the counters of a new MotionDetector after detect was called on each
\* frame of the boolean stream h
RECURSIVE DetectorAfter(_)
DetectorAfter(h) ==
    IF h = <<>>
    THEN [motion_frames |-> 0, no_motion_frames |-> 0]
    ELSE detect(DetectorAfter(SubSeq(h, 1, Len(h) - 1)), h[Len(h)])

\* the length of the run of non-qualifying frames that ends the stream h
RECURSIVE TrailingQuiet(_)
TrailingQuiet(h) ==
    IF h = <<>> \/ h[Len(h)] THEN 0
    ELSE 1 + TrailingQuiet(SubSeq(h, 1, Len(h) - 1))

\* C32: when detect returned true on the frame before a run of non-qualifying
\* frames (the streak counter had reached min_motion_frames), it returns
\* true on the 1st to 5th frame of the run and false on the 6th and on every
\* later frame of the run.
C32_GraceKeepsDetectTrue ==
    \A c \in Cameras :
        LET h == hist[c]
            t == TrailingQuiet(h)
            before == DetectorAfter(SubSeq(h, 1, Len(h) - t))
        IN  (t >= 1 /\ detect_result(before, config[c].min_motion_frames)) =>
                (last[c].detected <=> t <= GraceFrames)

\* detect has returned true on the 5th non-qualifying frame in a row after
\* the streak was reached
C32_Witness ==
    \E c \in Cameras :
        /\ TrailingQuiet(hist[c]) = GraceFrames
        /\ Len(hist[c]) = config[c].min_motion_frames + GraceFrames
        /\ ~last[c].qualifying
        /\ last[c].detected
        /\ det[c].motion_frames >= config[c].min_motion_frames

============================================================================
